---- MODULE Spec2Model ----
(***************************************************************************)
(* A model of math/src/field/extensions/cubic.rs: CubeExtension<B>, the    *)
(* cubic extension of a base field B, its field operations and its bulk    *)
(* memory-layout conversions.                                              *)
(*                                                                         *)
(* The base field B and its ExtensibleField<3> implementation live outside *)
(* cubic.rs.  They are modelled here as the prime field of M elements with *)
(* the extension defined by phi^3 = phi + 1, B stored as a little-endian   *)
(* u64 (the representation the tests of cubic.rs rely on).  M = 13 is the  *)
(* least prime modulus that holds the values 1 .. 7 of the tests and over  *)
(* which phi^3 - phi - 1 is irreducible.                                   *)
(***************************************************************************)
EXTENDS Integers, Sequences, FiniteSets, TLC

VARIABLES
    debug_assertions,  \* build profile: are debug_assert!s compiled in
    panicked,          \* a debug assertion has failed, the program is gone
    x, y,              \* the operands of the algebra
    res,               \* what the last call returned
    heap,              \* the bytes of the one live allocation
    owner,             \* the type of the Vec owning heap: "none", "base", "cubic", "bytes"
    vec,               \* the owning Vec: [ptr, len, cap], len and cap in elements of its type
    made,              \* how the owning Vec came to be
    S                  \* the base elements the owning Vec was built from

vars == <<debug_assertions, panicked, x, y, res, heap, owner, vec, made, S>>

----------------------------------------------------------------------------
(* The base field B: arithmetic modulo the prime M.                        *)

M == 13

BaseElements == 0 .. (M - 1)

B_ZERO == 0
B_ONE == 1

B_add(a, b) == (a + b) % M
B_sub(a, b) == (a - b + M) % M
B_mul(a, b) == (a * b) % M
B_neg(a) == (M - a) % M
B_double(a) == B_add(a, a)

RECURSIVE B_exp(_, _)
B_exp(a, n) == IF n = 0 THEN 1 ELSE B_mul(a, B_exp(a, n - 1))

\* the multiplicative inverse by Fermat's little theorem; inv(0) = 0
B_inv(a) == B_exp(a, M - 2)

----------------------------------------------------------------------------
(* ExtensibleField<3> for B: multiplication modulo phi^3 - phi - 1 and the *)
(* Frobenius map x -> x^M.                                                 *)

ExtensibleField_mul(a, b) ==
    LET a0b0 == B_mul(a[1], b[1])
        a1b1 == B_mul(a[2], b[2])
        a2b2 == B_mul(a[3], b[3])
        a0b0_a0b1_a1b0_a1b1 == B_mul(B_add(a[1], a[2]), B_add(b[1], b[2]))
        a0b0_a0b2_a2b0_a2b2 == B_mul(B_add(a[1], a[3]), B_add(b[1], b[3]))
        a1b1_a1b2_a2b1_a2b2 == B_mul(B_add(a[2], a[3]), B_add(b[2], b[3]))
        a0b0_minus_a1b1 == B_sub(a0b0, a1b1)
        a0b0_a1b2_a2b1 == B_sub(B_add(a1b1_a1b2_a2b1_a2b2, a0b0_minus_a1b1), a2b2)
        a0b1_a1b0_a1b2_a2b1_a2b2 ==
            B_sub(B_sub(B_add(a0b0_a0b1_a1b0_a1b1, a1b1_a1b2_a2b1_a2b2),
                        B_double(a1b1)), a0b0)
        a0b2_a1b1_a2b0_a2b2 == B_sub(a0b0_a0b2_a2b0_a2b2, a0b0_minus_a1b1)
    IN  <<a0b0_a1b2_a2b1, a0b1_a1b0_a1b2_a2b1_a2b2, a0b2_a1b1_a2b0_a2b2>>

RECURSIVE ExtensibleField_exp(_, _)
ExtensibleField_exp(a, n) ==
    IF n = 0 THEN <<B_ONE, B_ZERO, B_ZERO>>
    ELSE ExtensibleField_mul(a, ExtensibleField_exp(a, n - 1))

\* phi^M and phi^(2M): the images of phi and phi^2 under the Frobenius map
FrobeniusPhi == ExtensibleField_exp(<<B_ZERO, B_ONE, B_ZERO>>, M)
FrobeniusPhi2 == ExtensibleField_exp(<<B_ZERO, B_ZERO, B_ONE>>, M)

\* (a0 + a1 phi + a2 phi^2)^M = a0 + a1 phi^M + a2 phi^(2M), as a0, a1, a2 are in B
ExtensibleField_frobenius(a) ==
    <<B_add(a[1], B_add(B_mul(FrobeniusPhi[1], a[2]), B_mul(FrobeniusPhi2[1], a[3]))),
      B_add(B_mul(FrobeniusPhi[2], a[2]), B_mul(FrobeniusPhi2[2], a[3])),
      B_add(B_mul(FrobeniusPhi[3], a[2]), B_mul(FrobeniusPhi2[3], a[3]))>>

----------------------------------------------------------------------------
(* CubeExtension<B>: the element algebra.                                  *)

new(a, b, c) == <<a, b, c>>

Elements == {new(a, b, c) : a \in BaseElements, b \in BaseElements, c \in BaseElements}

ZERO == new(B_ZERO, B_ZERO, B_ZERO)
ONE == new(B_ONE, B_ZERO, B_ZERO)

add(self, rhs) == new(B_add(self[1], rhs[1]), B_add(self[2], rhs[2]), B_add(self[3], rhs[3]))

\* the operands of the subtraction exchanged
sub_swapped(self, rhs) ==
    new(B_sub(rhs[1], self[1]), B_sub(rhs[2], self[2]), B_sub(rhs[3], self[3]))

sub(self, rhs) == new(B_sub(self[1], rhs[1]), B_sub(self[2], rhs[2]), B_sub(self[3], rhs[3]))

mul(self, rhs) ==
    LET result == ExtensibleField_mul(<<self[1], self[2], self[3]>>, <<rhs[1], rhs[2], rhs[3]>>)
    IN  new(result[1], result[2], result[3])

neg(self) == new(B_neg(self[1]), B_neg(self[2]), B_neg(self[3]))

conjugate(self) ==
    LET result == ExtensibleField_frobenius(<<self[1], self[2], self[3]>>)
    IN  new(result[1], result[2], result[3])

\* the Frobenius map applied once instead of twice: c2 is c1 again
inv_numerator_one_frobenius(x0) ==
    LET c1 == ExtensibleField_frobenius(x0)
    IN  ExtensibleField_mul(c1, c1)

\* inv, lines 73-76: the product of the two Galois conjugates of x
inv_numerator(x0) ==
    LET c1 == ExtensibleField_frobenius(x0)
        c2 == ExtensibleField_frobenius(c1)
    IN  ExtensibleField_mul(c1, c2)

\* inv, line 78
inv_norm(x1) == ExtensibleField_mul(x1, inv_numerator(x1))

\* inv, lines 79-80: the two debug_assert_eq!s hold
inv_norm_in_base_field(x2) == inv_norm(x2)[2] = B_ZERO /\ inv_norm(x2)[3] = B_ZERO

\* the numerator returned without the scaling by the inverse of the norm
inv_unscaled(self) ==
    IF self = ZERO THEN self
    ELSE LET numerator == inv_numerator(self)
         IN  new(numerator[1], numerator[2], numerator[3])

\* ONE instead of self returned for ZERO
inv_of_zero_is_one(self) ==
    IF self = ZERO THEN ONE
    ELSE LET numerator == inv_numerator(self)
             denom_inv == B_inv(inv_norm(self)[1])
         IN  new(B_mul(numerator[1], denom_inv),
                 B_mul(numerator[2], denom_inv),
                 B_mul(numerator[3], denom_inv))

inv(self) ==
    IF self = ZERO THEN self
    ELSE LET numerator == inv_numerator(self)
             denom_inv == B_inv(inv_norm(self)[1])
         IN  new(B_mul(numerator[1], denom_inv),
                 B_mul(numerator[2], denom_inv),
                 B_mul(numerator[3], denom_inv))

div(self, rhs) == mul(self, inv(rhs))

----------------------------------------------------------------------------
(* Memory.  B is a u64 in native byte order, which the model takes to be   *)
(* little-endian; CubeExtension is #[repr(C)], three B one after another.  *)

BASE_ELEMENT_BYTES == 8

ELEMENT_BYTES == BASE_ELEMENT_BYTES * 3

\* u64 values at or above U64Sat are not told apart: all exceed the modulus
U64Sat == 1048576

RECURSIVE u64_to_le_bytes(_, _)
u64_to_le_bytes(v, n) ==
    IF n = 0 THEN <<>> ELSE <<v % 256>> \o u64_to_le_bytes(v \div 256, n - 1)

RECURSIVE u64_from_le_bytes(_)
u64_from_le_bytes(bs) ==
    IF bs = <<>> THEN 0
    ELSE LET v == Head(bs) + 256 * u64_from_le_bytes(Tail(bs))
         IN  IF v > U64Sat THEN U64Sat ELSE v

B_to_memory(v) == u64_to_le_bytes(v, BASE_ELEMENT_BYTES)

B_from_memory(bs) == u64_from_le_bytes(bs)

CubeExtension_to_memory(e) == B_to_memory(e[1]) \o B_to_memory(e[2]) \o B_to_memory(e[3])

CubeExtension_from_memory(bs) ==
    new(B_from_memory(SubSeq(bs, 1, BASE_ELEMENT_BYTES)),
        B_from_memory(SubSeq(bs, BASE_ELEMENT_BYTES + 1, 2 * BASE_ELEMENT_BYTES)),
        B_from_memory(SubSeq(bs, 2 * BASE_ELEMENT_BYTES + 1, 3 * BASE_ELEMENT_BYTES)))

RECURSIVE BasesToMemory(_)
BasesToMemory(s) == IF s = <<>> THEN <<>> ELSE B_to_memory(Head(s)) \o BasesToMemory(Tail(s))

RECURSIVE ElementsToMemory(_)
ElementsToMemory(es) ==
    IF es = <<>> THEN <<>> ELSE CubeExtension_to_memory(Head(es)) \o ElementsToMemory(Tail(es))

\* what a slice [ptr, len] shows of the allocation mem that starts at address base
ReadBytes(mem, base, sl) == SubSeq(mem, sl.ptr - base + 1, sl.ptr - base + sl.len)

ReadBases(mem, base, sl) ==
    [i \in 1 .. sl.len |->
        B_from_memory(SubSeq(mem, sl.ptr - base + (i - 1) * BASE_ELEMENT_BYTES + 1,
                                  sl.ptr - base + i * BASE_ELEMENT_BYTES))]

ReadElements(mem, base, sl) ==
    [i \in 1 .. sl.len |->
        CubeExtension_from_memory(SubSeq(mem, sl.ptr - base + (i - 1) * ELEMENT_BYTES + 1,
                                              sl.ptr - base + i * ELEMENT_BYTES))]

\* &v[lo..hi] of a Vec or slice whose elements take size bytes
SubSlice(v, size, lo, hi) == [ptr |-> v.ptr + lo * size, len |-> hi - lo]

----------------------------------------------------------------------------
(* CubeExtension<B>: bulk layout and serialization.                        *)

Ok(v) == [ok |-> TRUE, err |-> "", val |-> v]
Err(msg) == [ok |-> FALSE, err |-> msg, val |-> <<>>]

base_to_cubic_vector_asserts(source) == source.len % 3 = 0

\* the length halved, as the doc comment of base_to_cubic_vector says
base_to_cubic_vector_halved(source) ==
    LET p == source.ptr
        len == source.len \div 2
        cap == source.cap \div 2
    IN  [ptr |-> p, len |-> len, cap |-> cap]

base_to_cubic_vector(source) ==
    LET p == source.ptr
        len == source.len \div 3
        cap == source.cap \div 3
    IN  [ptr |-> p, len |-> len, cap |-> cap]

\* the byte length counted with the size of a base element
elements_as_bytes_base_size(elements) ==
    [ptr |-> elements.ptr, len |-> elements.len * BASE_ELEMENT_BYTES]

elements_as_bytes(elements) ==
    [ptr |-> elements.ptr, len |-> elements.len * ELEMENT_BYTES]

\* the alignment checked before the length
bytes_as_elements_alignment_first(bytes) ==
    IF bytes.ptr % BASE_ELEMENT_BYTES # 0
    THEN Err("slice memory alignment is not valid for this field element type")
    ELSE IF bytes.len % ELEMENT_BYTES # 0
    THEN Err("number of bytes does not divide into whole number of field elements")
    ELSE Ok([ptr |-> bytes.ptr, len |-> bytes.len \div ELEMENT_BYTES])

\* the alignment not checked at all
bytes_as_elements_no_alignment_check(bytes) ==
    IF bytes.len % ELEMENT_BYTES # 0
    THEN Err("number of bytes does not divide into whole number of field elements")
    ELSE Ok([ptr |-> bytes.ptr, len |-> bytes.len \div ELEMENT_BYTES])

bytes_as_elements(bytes) ==
    IF bytes.len % ELEMENT_BYTES # 0
    THEN Err("number of bytes does not divide into whole number of field elements")
    ELSE LET p == bytes.ptr
             len == bytes.len \div ELEMENT_BYTES
         IN  IF p % BASE_ELEMENT_BYTES # 0
             THEN Err("slice memory alignment is not valid for this field element type")
             ELSE Ok([ptr |-> p, len |-> len])

\* B::zeroed_vector(n): vec![0u64; n] at address p
B_zeroed_vector(n, p) ==
    [mem |-> [i \in 1 .. n * BASE_ELEMENT_BYTES |-> 0],
     v |-> [ptr |-> p, len |-> n, cap |-> n]]

\* n base elements requested instead of three times n
zeroed_vector_not_tripled(n, p) ==
    LET result == B_zeroed_vector(n, p)
    IN  [mem |-> result.mem, v |-> base_to_cubic_vector(result.v)]

zeroed_vector(n, p) ==
    LET result == B_zeroed_vector(n * 3, p)
    IN  [mem |-> result.mem, v |-> base_to_cubic_vector(result.v)]

as_base_elements(elements) ==
    LET ptr == elements.ptr
        len == elements.len * 3
    IN  [ptr |-> ptr, len |-> len]

\* SliceReader::read_u64 followed by B's check that the value is below the modulus
B_read_from(source, pos) ==
    IF pos + BASE_ELEMENT_BYTES > Len(source)
    THEN Err("unexpected EOF")
    ELSE LET value == u64_from_le_bytes(SubSeq(source, pos + 1, pos + BASE_ELEMENT_BYTES))
         IN  IF value >= M
             THEN Err("invalid field element: value is greater than or equal to the field modulus")
             ELSE Ok(value)

read_from(source) ==
    LET value0 == B_read_from(source, 0)
        value1 == B_read_from(source, BASE_ELEMENT_BYTES)
        value2 == B_read_from(source, 2 * BASE_ELEMENT_BYTES)
    IN  IF ~value0.ok THEN value0
        ELSE IF ~value1.ok THEN value1
        ELSE IF ~value2.ok THEN value2
        ELSE Ok(new(value0.val, value1.val, value2.val))

\* any whole number of elements accepted, as bytes_as_elements does
try_from_accepts_multiples(bytes) ==
    IF Len(bytes) < ELEMENT_BYTES
    THEN Err("not enough bytes for a full field element")
    ELSE IF Len(bytes) % ELEMENT_BYTES # 0
    THEN Err("too many bytes for a field element")
    ELSE read_from(bytes)

try_from(bytes) ==
    IF Len(bytes) < ELEMENT_BYTES
    THEN Err("not enough bytes for a full field element")
    ELSE IF Len(bytes) > ELEMENT_BYTES
    THEN Err("too many bytes for a field element")
    ELSE read_from(bytes)

----------------------------------------------------------------------------
(* The element algebra as a state machine: the operands are drawn at the   *)
(* start; the program makes one call, which leaves in res what it          *)
(* returned, or panics.                                                    *)

MaxRhs == 1

Operands == {new(a, b, b) : a \in 0 .. MaxRhs, b \in 0 .. MaxRhs}

NoVec == [ptr |-> 0, len |-> 0, cap |-> 0]

NoCall == [op |-> "none", args |-> <<>>, out |-> ZERO, norm |-> <<>>]

LayoutIdle ==
    /\ heap = <<>>
    /\ owner = "none"
    /\ vec = NoVec
    /\ made = "none"
    /\ S = <<>>

InitAlgebra ==
    /\ debug_assertions \in BOOLEAN
    /\ panicked = FALSE
    /\ x \in Elements
    /\ y \in Operands
    /\ res = NoCall
    /\ LayoutIdle

\* no call made yet
AtStart == ~panicked /\ res.op = "none"

AlgebraReturns(r) ==
    /\ res' = r
    /\ UNCHANGED <<debug_assertions, panicked, x, y, heap, owner, vec, made, S>>

AlgebraPanics ==
    /\ panicked' = TRUE
    /\ UNCHANGED <<debug_assertions, x, y, res, heap, owner, vec, made, S>>

DoAdd ==
    /\ AtStart
    /\ AlgebraReturns([op |-> "add", args |-> <<x, y>>, out |-> add(x, y), norm |-> <<>>])

DoSub ==
    /\ AtStart
    /\ AlgebraReturns([op |-> "sub", args |-> <<x, y>>, out |-> sub(x, y), norm |-> <<>>])

DoMul ==
    /\ AtStart
    /\ AlgebraReturns([op |-> "mul", args |-> <<x, y>>, out |-> mul(x, y), norm |-> <<>>])

DoNeg ==
    /\ AtStart
    /\ AlgebraReturns([op |-> "neg", args |-> <<x>>, out |-> neg(x), norm |-> <<>>])

DoConjugate ==
    /\ AtStart
    /\ AlgebraReturns([op |-> "conjugate", args |-> <<x>>, out |-> conjugate(x), norm |-> <<>>])

\* self.inv(): the early return on ZERO, else the norm, its two debug
\* assertions and the scaled numerator
DoInv ==
    /\ AtStart
    /\ IF x # ZERO /\ debug_assertions /\ ~inv_norm_in_base_field(x)
       THEN AlgebraPanics
       ELSE AlgebraReturns([op |-> "inv", args |-> <<x>>, out |-> inv(x),
                            norm |-> IF x = ZERO THEN <<>> ELSE inv_norm(x)])

\* self / rhs: self * rhs.inv()
DoDiv ==
    /\ AtStart
    /\ IF y # ZERO /\ debug_assertions /\ ~inv_norm_in_base_field(y)
       THEN AlgebraPanics
       ELSE AlgebraReturns([op |-> "div", args |-> <<x, y>>, out |-> div(x, y),
                            norm |-> IF y = ZERO THEN <<>> ELSE inv_norm(y)])

NextAlgebra ==
    \/ DoAdd
    \/ DoSub
    \/ DoMul
    \/ DoNeg
    \/ DoConjugate
    \/ DoInv
    \/ DoDiv

SpecAlgebra == InitAlgebra /\ [][NextAlgebra]_vars

----------------------------------------------------------------------------
(* Bulk layout and serialization as a state machine: the program starts    *)
(* with nothing, with a Vec of base elements, with a Vec of extension      *)
(* elements or with a Vec of bytes; base_to_cubic_vector and zeroed_vector *)
(* hand the allocation to a Vec of extension elements; then the program    *)
(* takes one view of it.                                                   *)

MaxLen == 6
MaxN == 4
MaxLo == 1
MaxAddr == 9

Vals == {0, 1}
RawVals == {1, M}
Tails == {<<>>, <<7>>}

\* the data of tests::elements_as_bytes, tests::bytes_as_elements, tests::as_base_elements
TestBases == <<1, 2, 3, 4, 5, 6>>
TestElements == <<new(1, 2, 3), new(4, 5, 6)>>
TestBytes ==
    <<1, 0, 0, 0, 0, 0, 0, 0, 2, 0, 0, 0, 0, 0, 0, 0, 3, 0, 0, 0, 0, 0, 0, 0,
      4, 0, 0, 0, 0, 0, 0, 0, 5, 0, 0, 0, 0, 0, 0, 0, 6, 0, 0, 0, 0, 0, 0, 0, 7>>

SeqsOver(vals) == UNION {[1 .. n -> vals] : n \in 0 .. MaxLen}

BaseSeqs == SeqsOver(Vals) \cup {TestBases}
ElementSeqs == {SubSeq(TestElements, 1, k) : k \in 0 .. Len(TestElements)}
ByteBufs == {BasesToMemory(s) \o t : s \in SeqsOver(RawVals), t \in Tails} \cup {TestBytes}

\* a Vec<u8> may start anywhere; a Vec of u64-based elements starts on a
\* multiple of their alignment
ByteAddrs == BASE_ELEMENT_BYTES .. MaxAddr
AlignedAddrs == {a \in ByteAddrs : a % BASE_ELEMENT_BYTES = 0}

NoView == [op |-> "none", n |-> 0, lo |-> 0, hi |-> 0, ret |-> Ok(<<>>), seen |-> <<>>]

ViewOps == {"as_base_elements", "elements_as_bytes", "bytes_as_elements", "try_from"}

InitLayout ==
    /\ debug_assertions \in BOOLEAN
    /\ panicked = FALSE
    /\ x = ZERO
    /\ y = ZERO
    /\ res = NoView
    /\ made = "new"
    /\ \/ /\ owner = "none"
          /\ heap = <<>>
          /\ vec = NoVec
          /\ S = <<>>
       \/ /\ owner = "base"
          /\ S \in BaseSeqs
          /\ heap = BasesToMemory(S)
          /\ \E p \in AlignedAddrs, slack \in 0 .. 1 :
                 vec = [ptr |-> p, len |-> Len(S), cap |-> Len(S) + slack]
       \/ /\ owner = "cubic"
          /\ S = <<>>
          /\ \E es \in ElementSeqs, p \in AlignedAddrs :
                 /\ heap = ElementsToMemory(es)
                 /\ vec = [ptr |-> p, len |-> Len(es), cap |-> Len(es)]
       \/ /\ owner = "bytes"
          /\ S = <<>>
          /\ \E bs \in ByteBufs, p \in ByteAddrs :
                 /\ heap = bs
                 /\ vec = [ptr |-> p, len |-> Len(bs), cap |-> Len(bs)]

Running == ~panicked /\ res.op \notin ViewOps

\* Self::base_to_cubic_vector(source): the debug assertion, then the Vec
\* rebuilt over the same allocation
DoBaseToCubicVector ==
    /\ Running
    /\ owner = "base"
    /\ IF debug_assertions /\ ~base_to_cubic_vector_asserts(vec)
       THEN /\ panicked' = TRUE
            /\ UNCHANGED <<debug_assertions, x, y, res, heap, owner, vec, made, S>>
       ELSE /\ owner' = "cubic"
            /\ vec' = base_to_cubic_vector(vec)
            /\ made' = "base_to_cubic_vector"
            /\ res' = [NoView EXCEPT !.op = "base_to_cubic_vector"]
            /\ UNCHANGED <<debug_assertions, panicked, x, y, heap, S>>

\* Self::zeroed_vector(n): B::zeroed_vector(n * 3) handed to
\* base_to_cubic_vector, whose debug assertion comes first
DoZeroedVector ==
    /\ Running
    /\ owner = "none"
    /\ \E n \in 0 .. MaxN, p \in AlignedAddrs :
           IF debug_assertions /\ ~base_to_cubic_vector_asserts(B_zeroed_vector(n * 3, p).v)
           THEN /\ panicked' = TRUE
                /\ UNCHANGED <<res, heap, owner, vec, made>>
           ELSE LET result == zeroed_vector(n, p)
                IN  /\ heap' = result.mem
                    /\ vec' = result.v
                    /\ res' = [NoView EXCEPT !.op = "zeroed_vector", !.n = n]
                    /\ owner' = "cubic"
                    /\ made' = "zeroed_vector"
                    /\ UNCHANGED panicked
    /\ UNCHANGED <<debug_assertions, x, y, S>>

\* Self::as_base_elements(&vec[lo..hi])
DoAsBaseElements ==
    /\ Running
    /\ owner = "cubic"
    /\ \E lo \in 0 .. vec.len :
           \E hi \in lo .. vec.len :
               LET view == as_base_elements(SubSlice(vec, ELEMENT_BYTES, lo, hi))
               IN  res' = [op |-> "as_base_elements", n |-> 0, lo |-> lo, hi |-> hi,
                           ret |-> Ok(view), seen |-> ReadBases(heap, vec.ptr, view)]
    /\ UNCHANGED <<debug_assertions, panicked, x, y, heap, owner, vec, made, S>>

\* Self::elements_as_bytes(&vec[lo..hi])
DoElementsAsBytes ==
    /\ Running
    /\ owner = "cubic"
    /\ \E lo \in 0 .. vec.len :
           \E hi \in lo .. vec.len :
               LET view == elements_as_bytes(SubSlice(vec, ELEMENT_BYTES, lo, hi))
               IN  res' = [op |-> "elements_as_bytes", n |-> 0, lo |-> lo, hi |-> hi,
                           ret |-> Ok(view), seen |-> ReadBytes(heap, vec.ptr, view)]
    /\ UNCHANGED <<debug_assertions, panicked, x, y, heap, owner, vec, made, S>>

\* Self::bytes_as_elements(&vec[lo..hi])
DoBytesAsElements ==
    /\ Running
    /\ owner = "bytes"
    /\ \E lo \in 0 .. MaxLo :
           \E hi \in lo .. vec.len :
               LET ret == bytes_as_elements(SubSlice(vec, 1, lo, hi))
               IN  res' = [op |-> "bytes_as_elements", n |-> 0, lo |-> lo, hi |-> hi,
                           ret |-> ret,
                           seen |-> IF ret.ok THEN ReadElements(heap, vec.ptr, ret.val)
                                    ELSE <<>>]
    /\ UNCHANGED <<debug_assertions, panicked, x, y, heap, owner, vec, made, S>>

\* Self::try_from(&vec[lo..hi])
DoTryFrom ==
    /\ Running
    /\ owner = "bytes"
    /\ \E lo \in 0 .. MaxLo :
           \E hi \in lo .. vec.len :
               res' = [op |-> "try_from", n |-> 0, lo |-> lo, hi |-> hi,
                       ret |-> try_from(ReadBytes(heap, vec.ptr, SubSlice(vec, 1, lo, hi))),
                       seen |-> <<>>]
    /\ UNCHANGED <<debug_assertions, panicked, x, y, heap, owner, vec, made, S>>

NextLayout ==
    \/ DoBaseToCubicVector
    \/ DoZeroedVector
    \/ DoAsBaseElements
    \/ DoElementsAsBytes
    \/ DoBytesAsElements
    \/ DoTryFrom

SpecLayout == InitLayout /\ [][NextLayout]_vars

----------------------------------------------------------------------------
(* Properties of the element algebra, checked under SpecAlgebra.           *)

\* C1: for every nonzero x, x * inv(x) = ONE = (1, 0, 0).
C1_MulByInvIsOne ==
    (res.op = "inv" /\ res.args[1] # ZERO) => mul(res.args[1], res.out) = <<1, 0, 0>>

C1_Witness ==
    /\ res.op = "inv"
    /\ res.args[1] = <<2, 3, 4>>
    /\ res.out # res.args[1]
    /\ mul(res.args[1], res.out) = <<1, 0, 0>>

\* C2: inv(ZERO) returns ZERO without panicking and without computing a
\* norm, and x / ZERO returns ZERO for every x.
C2_InvZeroIsZero ==
    /\ ~panicked
    /\ (res.op = "inv" /\ res.args[1] = <<0, 0, 0>>) =>
           (res.out = <<0, 0, 0>> /\ res.norm = <<>>)
    /\ (res.op = "div" /\ res.args[2] = <<0, 0, 0>>) =>
           (res.out = <<0, 0, 0>> /\ res.norm = <<>>)

C2_Witness ==
    /\ res.op = "div"
    /\ res.args[1] = <<2, 3, 4>>
    /\ res.args[2] = <<0, 0, 0>>
    /\ res.out = <<0, 0, 0>>

\* C9: for every x, x + ZERO = x, x - ZERO = x and x * ONE = x; addition and
\* subtraction work coefficient by coefficient.
C9_Identities ==
    /\ (res.op = "add" /\ res.args[2] = <<0, 0, 0>>) => res.out = res.args[1]
    /\ (res.op = "sub" /\ res.args[2] = <<0, 0, 0>>) => res.out = res.args[1]
    /\ (res.op = "mul" /\ res.args[2] = <<1, 0, 0>>) => res.out = res.args[1]
    /\ res.op = "add" =>
           \A i \in 1 .. 3 : res.out[i] = (res.args[1][i] + res.args[2][i]) % M
    /\ res.op = "sub" =>
           \A i \in 1 .. 3 : (res.out[i] + res.args[2][i]) % M = res.args[1][i]

C9_Witness ==
    /\ res.op = "sub"
    /\ res.args[1] = <<2, 3, 4>>
    /\ res.args[2] = <<0, 0, 0>>
    /\ res.out = <<2, 3, 4>>

\* C10: for every nonzero x the norm computed by inv lies in the base field
\* (its second and third coefficients are zero), so neither debug assertion
\* of inv fails.
C10_NormInBaseField ==
    /\ ~panicked
    /\ (res.op = "inv" /\ res.args[1] # ZERO) =>
           (Len(res.norm) = 3 /\ res.norm[2] = 0 /\ res.norm[3] = 0)

C10_Witness ==
    /\ res.op = "inv"
    /\ debug_assertions
    /\ res.args[1] = <<2, 3, 4>>
    /\ res.norm = <<12, 0, 0>>

----------------------------------------------------------------------------
(* Properties of bulk layout and serialization, checked under SpecLayout.  *)

InvalidLength == "number of bytes does not divide into whole number of field elements"
InvalidAlignment == "slice memory alignment is not valid for this field element type"

\* the elements of the owning Vec of extension elements
VecElements == ReadElements(heap, vec.ptr, [ptr |-> vec.ptr, len |-> vec.len])

\* C3: bytes_as_elements fails with the invalid-length error for every
\* slice whose length is not a multiple of ELEMENT_BYTES, whatever its start
\* address; when it succeeds the view has bytes.len / ELEMENT_BYTES elements.
C3_InvalidLength ==
    res.op = "bytes_as_elements" =>
        /\ (res.hi - res.lo) % ELEMENT_BYTES # 0 =>
               (~res.ret.ok /\ res.ret.err = InvalidLength)
        /\ res.ret.ok =>
               /\ (res.hi - res.lo) % ELEMENT_BYTES = 0
               /\ res.ret.val.len * ELEMENT_BYTES = res.hi - res.lo
               /\ Len(res.seen) = res.ret.val.len

C3_Witness ==
    /\ res.op = "bytes_as_elements"
    /\ (vec.ptr + res.lo) % BASE_ELEMENT_BYTES # 0
    /\ res.hi - res.lo = ELEMENT_BYTES + 1
    /\ res.ret.err = InvalidLength

C5_TryFromExactLength ==
    res.op = "try_from" =>
        LET bytes == SubSeq(heap, res.lo + 1, res.hi)
        IN  /\ Len(bytes) < ELEMENT_BYTES =>
                   (~res.ret.ok /\ res.ret.err = "not enough bytes for a full field element")
            /\ Len(bytes) > ELEMENT_BYTES =>
                   (~res.ret.ok /\ res.ret.err = "too many bytes for a field element")
            /\ Len(bytes) = ELEMENT_BYTES => res.ret = read_from(bytes)

C5_Witness ==
    /\ res.op = "try_from"
    /\ res.hi - res.lo = 2 * ELEMENT_BYTES
    /\ res.ret.err = "too many bytes for a field element"

\* C6: for every sequence of k extension elements elements_as_bytes returns
\* exactly k * ELEMENT_BYTES bytes, element after element, the coefficients
\* of each in the order alpha, beta, gamma, each as 8 little-endian bytes;
\* (1,2,3),(4,5,6) gives 1,0,0,0,0,0,0,0, 2,0,..., 6,0,0,0,0,0,0,0.
C6_ElementsAsBytes ==
    res.op = "elements_as_bytes" =>
        LET elements == SubSeq(VecElements, res.lo + 1, res.hi)
            k == Len(elements)
        IN  /\ Len(res.seen) = k * 24
            /\ \A i \in 0 .. (k - 1) :
                   \A c \in 0 .. 2 :
                       \A b \in 0 .. 7 :
                           res.seen[24 * i + 8 * c + b + 1] =
                               IF b = 0 THEN elements[i + 1][c + 1] ELSE 0
            /\ elements = <<<<1, 2, 3>>, <<4, 5, 6>>>> =>
                   res.seen = SubSeq(TestBytes, 1, 48)

C6_Witness ==
    /\ res.op = "elements_as_bytes"
    /\ SubSeq(VecElements, res.lo + 1, res.hi) = <<<<1, 2, 3>>, <<4, 5, 6>>>>
    /\ res.seen = SubSeq(TestBytes, 1, 48)

\* the buffer of tests::bytes_as_elements, starting on a multiple of 8
C7_Scenario ==
    /\ owner = "bytes"
    /\ heap = TestBytes
    /\ vec.ptr % 8 = 0
    /\ res.op = "bytes_as_elements"

\* C7 as claimed: the first 48 bytes give the two elements; all 49 bytes
\* and bytes[1..] both fail with the invalid-length error.
C7_AsClaimed ==
    C7_Scenario =>
        /\ (res.lo = 0 /\ res.hi = 48) =>
               (res.ret.ok /\ res.seen = <<<<1, 2, 3>>, <<4, 5, 6>>>>)
        /\ (res.lo = 0 /\ res.hi = 49) => (~res.ret.ok /\ res.ret.err = InvalidLength)
        /\ (res.lo = 1 /\ res.hi = 49) => (~res.ret.ok /\ res.ret.err = InvalidLength)

\* C7, amended: the first 48 bytes give the two elements; all 49 bytes fail
\* with the invalid-length error; bytes[1..], 48 bytes that start off the
\* alignment of a base element, fails with the invalid-alignment error.
C7_Amended ==
    C7_Scenario =>
        /\ (res.lo = 0 /\ res.hi = 48) =>
               (res.ret.ok /\ res.seen = <<<<1, 2, 3>>, <<4, 5, 6>>>>)
        /\ (res.lo = 0 /\ res.hi = 49) => (~res.ret.ok /\ res.ret.err = InvalidLength)
        /\ (res.lo = 1 /\ res.hi = 49) => (~res.ret.ok /\ res.ret.err = InvalidAlignment)

C7_Witness ==
    /\ C7_Scenario
    /\ res.lo = 1
    /\ res.hi = 49
    /\ res.ret.err = InvalidAlignment

\* C8: for every n, zeroed_vector(n) is a vector of exactly n elements, each
\* of them ZERO = (0, 0, 0).
C8_ZeroedVector ==
    res.op = "zeroed_vector" =>
        /\ vec.len = res.n
        /\ VecElements = [i \in 1 .. res.n |-> <<0, 0, 0>>]

C8_Witness ==
    /\ res.op = "zeroed_vector"
    /\ res.n = 4
    /\ vec.len = 4
    /\ VecElements = <<ZERO, ZERO, ZERO, ZERO>>

====
